---- MODULE Spec2Model ----
(***************************************************************************)
(* WeatherAgent: the tool-use conversation loop (agent.py), the executor   *)
(* it dispatches to (WeatherAgent._process_tool_call), the provider client *)
(* (weather_tools.py) and the tool server (weather_mcp_server.py).         *)
(***************************************************************************)
EXTENDS Integers, Sequences, FiniteSets, TLC

\* ------------------------------------------------------------------ bounds
\* Longest transcript explored (conversation_history has no cap in the code).
MaxTurns == 5
\* Largest number of calendar dates in one upstream forecast document.
MaxDates == 6

\* ------------------------------------------------------------- input sets
UserTexts == {"Hello", "Weather in London?"}

\* response.stop_reason values of the model API
StopReasons == {"tool_use", "end_turn", "max_tokens"}

\* Names in WEATHER_TOOLS
Registry == {"get_current_weather", "get_forecast"}

EmptyInput == [k \in {} |-> 0]

\* days values a request may carry
DaysValues == {-1, 0, 1, 3, 5, 6, 10}

Locations == {"London", "Paris", "Atlantis"}

Units == {"metric", "imperial"}

\* ------------------------------------------------------- content blocks
TextBlock(t) == [type |-> "text", text |-> t]

ToolUseBlock(id, name, input) ==
    [type |-> "tool_use", id |-> id, name |-> name, input |-> input]

ToolResultBlock(id, content) ==
    [type |-> "tool_result", tool_use_id |-> id, content |-> content]

\* tool_use blocks the model is let to produce
Requests ==
    { ToolUseBlock("toolu_1", "get_current_weather", [location |-> "London"]),
      ToolUseBlock("toolu_2", "get_forecast", [location |-> "London", days |-> 10]),
      ToolUseBlock("toolu_3", "get_forecast", [location |-> "London", days |-> 0]),
      ToolUseBlock("toolu_4", "get_forecast", EmptyInput),
      ToolUseBlock("toolu_5", "get_alerts", [location |-> "London"]) }

\* response.content values the model is let to produce
Contents ==
    { <<TextBlock("Hi")>>, <<TextBlock("It's 15C"), TextBlock(" in London.")>> }
    \cup { <<r>> : r \in Requests }
    \cup { <<TextBlock("Checking. "), r>> :
             r \in {q \in Requests : q.id = "toolu_2"} }
    \cup { <<r, q>> : r \in {x \in Requests : x.id = "toolu_5"},
                      q \in {x \in Requests : x.id = "toolu_1"} }

ModelResponses == [stop_reason : StopReasons, content : Contents]

NoResponse == [stop_reason |-> "none", content |-> <<>>]

\* ------------------------------------------------------------------ turns
\* {"role": "user", "content": user_message}: content is a plain string
UserTurn(text) == [role |-> "user", kind |-> "str", text |-> text, blocks |-> <<>>]

\* {"role": "assistant", "content": response.content}
AssistantTurn(content) ==
    [role |-> "assistant", kind |-> "blocks", text |-> "", blocks |-> content]

\* {"role": "user", "content": [{"type": "tool_result", ...}]}
ToolResultTurn(id, result) ==
    [role |-> "user", kind |-> "blocks", text |-> "",
     blocks |-> <<ToolResultBlock(id, result)>>]

\* ---------------------------------------------------------------- helpers
\* dict.get(key, default)
Get(d, key, default) == IF key \in DOMAIN d THEN d[key] ELSE default

Min(a, b) == IF a < b THEN a ELSE b

Max(a, b) == IF a > b THEN a ELSE b

\* len(lst[:stop]) for a list of n elements
SliceLen(n, stop) == IF stop >= 0 THEN Min(stop, n) ELSE Max(n + stop, 0)

\* json.dumps(obj, indent=indent): the document and its layout
JsonDumps(obj, indent) == [json |-> obj, indent |-> indent]

IsPrefix(s, t) == /\ Len(s) <= Len(t)
                  /\ \A i \in 1..Len(s) : s[i] = t[i]

\* ------------------------------------------------- provider (WeatherAPI)
\* What the upstream HTTP endpoints do during one execution.
ProviderOutcomes ==
    [geo : {"ok", "notfound"}, data : {"ok", "http"}, dates : {MaxDates}]

Returned(value, calls) ==
    [raised |-> FALSE, msg |-> "", value |-> value, calls |-> calls]

Raised(msg, calls) ==
    [raised |-> TRUE, msg |-> msg, value |-> [none |-> TRUE], calls |-> calls]

\* WeatherAPI._get_coordinates
GetCoordinates(location, env) ==
    IF env.geo = "notfound"
    THEN Raised("Location '" \o location \o "' not found", <<>>)
    ELSE Returned([name |-> location], <<>>)

\* WeatherAPI.get_current_weather
ApiGetCurrentWeather(location, units, env) ==
    LET call == [method |-> "get_current_weather", location |-> location,
                 units |-> units]
        geo == GetCoordinates(location, env)
        temp_unit == IF units = "metric" THEN "C" ELSE "F"
        speed_unit == IF units = "metric" THEN "m/s" ELSE "mph"
    IN  IF geo.raised THEN Raised(geo.msg, <<call>>)
        ELSE IF env.data = "http"
        THEN Raised("500 Server Error", <<call>>)
        ELSE Returned([location |-> geo.value.name,
                       temperature |-> "15" \o temp_unit,
                       wind_speed |-> "3 " \o speed_unit], <<call>>)

\* WeatherAPI.get_forecast
ApiGetForecast(location, days, units, env) ==
    LET call == [method |-> "get_forecast", location |-> location,
                 days |-> days, units |-> units]
        geo == GetCoordinates(location, env)
        temp_unit == IF units = "metric" THEN "C" ELSE "F"
    IN  IF geo.raised THEN Raised(geo.msg, <<call>>)
        ELSE IF env.data = "http"
        THEN Raised("500 Server Error", <<call>>)
        ELSE Returned([location |-> geo.value.name,
                       forecast |-> [i \in 1..SliceLen(env.dates, days) |->
                                       [date |-> i, high |-> "15" \o temp_unit]]],
                      <<call>>)

\* ------------------------------------------------------------- executor
\* an else branch that raises instead of answering
UnknownTool_Raise(tool_name) == Raised("Unknown tool: " \o tool_name, <<>>)

\* the else branch of _process_tool_call and its json.dumps
UnknownTool(tool_name) ==
    Returned(JsonDumps([error |-> "Unknown tool: " \o tool_name], 2), <<>>)

\* WeatherAgent._process_tool_call
ProcessToolCall(tool_name, tool_input, env) ==
    IF tool_name = "get_current_weather"
    THEN IF "location" \notin DOMAIN tool_input
         THEN Raised("'location'", <<>>)
         ELSE LET r == ApiGetCurrentWeather(tool_input["location"],
                                            Get(tool_input, "units", "metric"), env)
              IN  IF r.raised THEN r ELSE Returned(JsonDumps(r.value, 2), r.calls)
    ELSE IF tool_name = "get_forecast"
    THEN IF "location" \notin DOMAIN tool_input
         THEN Raised("'location'", <<>>)
         ELSE LET r == ApiGetForecast(tool_input["location"],
                                      Get(tool_input, "days", 5),
                                      Get(tool_input, "units", "metric"), env)
              IN  IF r.raised THEN r ELSE Returned(JsonDumps(r.value, 2), r.calls)
    ELSE UnknownTool(tool_name)

\* the call without the try/except: the failure propagates
ExecuteTool_NoCatch(tool_name, tool_input, env) ==
    ProcessToolCall(tool_name, tool_input, env)

\* the try/except around _process_tool_call in WeatherAgent.chat
ExecuteTool(tool_name, tool_input, env) ==
    LET r == ProcessToolCall(tool_name, tool_input, env)
    IN  IF r.raised
        THEN Returned(JsonDumps([error |-> r.msg], 0), r.calls)
        ELSE r

\* --------------------------------------------------------- loop helpers
\* position of next(block for block in response.content
\*                  if block.type == "tool_use"), 0 when next() has nothing
\* picks the last tool_use block instead of the first
FirstToolUseFrom_Last(content, i) ==
    LET S == {k \in i..Len(content) : content[k].type = "tool_use"}
    IN  IF S = {} THEN 0 ELSE CHOOSE k \in S : \A j \in S : j <= k

RECURSIVE FirstToolUseFrom(_, _)
FirstToolUseFrom(content, i) ==
    IF i > Len(content) THEN 0
    ELSE IF content[i].type = "tool_use" THEN i
    ELSE FirstToolUseFrom(content, i + 1)

FirstToolUse(content) == FirstToolUseFrom(content, 1)

\* response.content[0].text in place of the loop over the blocks
ConcatText_FirstBlock(content) ==
    IF content = <<>> THEN ""
    ELSE IF "text" \in DOMAIN Head(content) THEN Head(content).text ELSE ""

\* final_response: "" then += block.text for each block that has a text
RECURSIVE ConcatText(_)
ConcatText(content) ==
    IF content = <<>> THEN ""
    ELSE (IF "text" \in DOMAIN Head(content) THEN Head(content).text ELSE "")
         \o ConcatText(Tail(content))

HasToolUse(content) == \E i \in 1..Len(content) : content[i].type = "tool_use"

\* ------------------------------------------------------------------ state
VARIABLES
    history,       \* self.conversation_history
    pc,            \* where chat() is: idle, awaiting (inside messages.create),
                   \* returned, failed (an exception left chat)
    sent,          \* messages= of the model call issued last
    response,      \* the response chat() handled last
    retval,        \* the value chat() returned
    failKind,      \* what made chat() fail
    hist0,         \* conversation_history when chat() was entered
    userText,      \* user_message of the chat() in progress
    rounds,        \* loop iterations completed by the chat() in progress
    responses,     \* response.content of each response the chat() in progress
                   \* received, in order
    lastExec,      \* the executor run of the last loop iteration / server call
    startedAfter,  \* pc when the chat() in progress was entered
    cleared,       \* what the last reset() found
    execLog,       \* the executor calls of the chat() in progress, in order
    active,        \* chat() calls entered and not yet left
    failedSince    \* a chat() failed since the agent was built or last reset

vars == <<history, pc, sent, response, retval, failKind, hist0, userText,
          rounds, responses, lastExec, startedAfter, cleared, execLog, active,
          failedSince>>

NoExec == [path |-> "none", name |-> "", input |-> EmptyInput,
           implRaised |-> FALSE, msg |-> "", raised |-> FALSE,
           result |-> JsonDumps([none |-> TRUE], 0), calls |-> <<>>]

NoClear == [turns |-> 0, after |-> "none"]

\* WeatherAgent.__init__
Init ==
    /\ history = <<>>
    /\ pc = "idle"
    /\ sent = <<>>
    /\ response = NoResponse
    /\ retval = ""
    /\ failKind = "none"
    /\ hist0 = <<>>
    /\ userText = ""
    /\ rounds = 0
    /\ responses = <<>>
    /\ lastExec = NoExec
    /\ startedAfter = "none"
    /\ cleared = NoClear
    /\ execLog = <<>>
    /\ active = 0
    /\ failedSince = FALSE

\* ---------------------------------------------------------------- actions
\* a caller that enters chat() from a second thread while one is running
CallerFree_Threaded(p) == TRUE

\* main() calls agent.chat() and agent.reset() from its one loop and waits
\* for each to come back before it reads the next line
CallerFree(p) == p \in {"idle", "returned", "failed"}

\* chat(user_message) up to the first messages.create being in flight
Submit(text) ==
    /\ CallerFree(pc)
    /\ Len(history) < MaxTurns
    /\ history' = Append(history, UserTurn(text))
    /\ sent' = history'
    /\ pc' = "awaiting"
    /\ hist0' = history
    /\ userText' = text
    /\ rounds' = 0
    /\ responses' = <<>>
    /\ response' = NoResponse
    /\ retval' = ""
    /\ failKind' = "none"
    /\ lastExec' = NoExec
    /\ startedAfter' = IF pc # "idle" THEN pc
                       ELSE IF cleared = NoClear THEN "new"
                       ELSE IF cleared.turns = 0 THEN "reset_empty"
                       ELSE "reset"
    /\ cleared' = NoClear
    /\ execLog' = <<>>
    /\ active' = active + 1
    /\ UNCHANGED failedSince

\* a chat() that rolls its appends back when messages.create raises
OnModelFailure_Rollback(h, h0) == h0

\* what chat() does with the history when messages.create raises: nothing
OnModelFailure(h, h0) == h

\* messages.create raises: the exception leaves chat()
ModelFail ==
    /\ pc = "awaiting"
    /\ pc' = "failed"
    /\ failKind' = "model"
    /\ history' = OnModelFailure(history, hist0)
    /\ active' = active - 1
    /\ failedSince' = TRUE
    /\ UNCHANGED <<sent, response, retval, hist0, userText, rounds, responses,
                   lastExec, startedAfter, cleared, execLog>>

\* an iteration that appends the assistant turn and forgets the tool result
AppendRound_NoResult(h, content, id, result) ==
    Append(h, AssistantTurn(content))

\* an iteration that keys the tool result by the id of the last block
AppendRound_LastBlockId(h, content, id, result) ==
    Append(Append(h, AssistantTurn(content)),
           ToolResultTurn(content[Len(content)].id, result))

\* the two appends of one loop iteration
AppendRound(h, content, id, result) ==
    Append(Append(h, AssistantTurn(content)), ToolResultTurn(id, result))

\* a loop that gives up after one round
LoopContinues_Capped(resp, n) == resp.stop_reason = "tool_use" /\ n < 1

\* while response.stop_reason == "tool_use", in the iteration after n rounds
LoopContinues(resp, n) == resp.stop_reason = "tool_use"

\* one iteration of `while response.stop_reason == "tool_use"`, up to the
\* next messages.create being in flight
ToolRound(resp, env) ==
    /\ pc = "awaiting"
    /\ LoopContinues(resp, rounds)
    /\ FirstToolUse(resp.content) # 0
    /\ Len(history) + 2 <= MaxTurns
    /\ LET tool_use_block == resp.content[FirstToolUse(resp.content)]
           impl == ProcessToolCall(tool_use_block.name, tool_use_block.input, env)
           r == ExecuteTool(tool_use_block.name, tool_use_block.input, env)
       IN  /\ lastExec' = [path |-> "loop", name |-> tool_use_block.name,
                           input |-> tool_use_block.input,
                           implRaised |-> impl.raised, msg |-> impl.msg,
                           raised |-> r.raised,
                           result |-> r.value, calls |-> r.calls]
           /\ execLog' = Append(execLog, [name |-> tool_use_block.name,
                                          input |-> tool_use_block.input])
           /\ IF r.raised
              THEN /\ pc' = "failed"
                   /\ failKind' = "tool"
                   /\ active' = active - 1
                   /\ failedSince' = TRUE
                   /\ UNCHANGED <<history, sent, rounds>>
              ELSE /\ history' = AppendRound(history, resp.content,
                                             tool_use_block.id, r.value)
                   /\ sent' = history'
                   /\ rounds' = rounds + 1
                   /\ pc' = "awaiting"
                   /\ UNCHANGED <<failKind, active, failedSince>>
    /\ response' = resp
    /\ responses' = Append(responses, resp.content)
    /\ UNCHANGED <<retval, hist0, userText, startedAfter, cleared>>

\* stop_reason is "tool_use" and the content has no tool_use block: next()
\* raises StopIteration, which leaves chat()
ToolUseMissing(resp) ==
    /\ pc = "awaiting"
    /\ LoopContinues(resp, rounds)
    /\ FirstToolUse(resp.content) = 0
    /\ pc' = "failed"
    /\ failKind' = "StopIteration"
    /\ response' = resp
    /\ responses' = Append(responses, resp.content)
    /\ active' = active - 1
    /\ failedSince' = TRUE
    /\ UNCHANGED <<history, sent, retval, hist0, userText, rounds, lastExec,
                   startedAfter, cleared, execLog>>

\* a final append that keeps only the text of the response
AppendFinal_TextOnly(h, content) ==
    Append(h, AssistantTurn(SelectSeq(content, LAMBDA b : b.type = "text")))

\* the append after the while loop
AppendFinal(h, content) == Append(h, AssistantTurn(content))

\* the code after the while loop
Final(resp) ==
    /\ pc = "awaiting"
    /\ ~LoopContinues(resp, rounds)
    /\ Len(history) + 1 <= MaxTurns
    /\ retval' = ConcatText(resp.content)
    /\ history' = AppendFinal(history, resp.content)
    /\ pc' = "returned"
    /\ response' = resp
    /\ responses' = Append(responses, resp.content)
    /\ active' = active - 1
    /\ UNCHANGED <<sent, failKind, hist0, userText, rounds, lastExec,
                   startedAfter, cleared, execLog, failedSince>>

\* a reset that keeps the first turn
Cleared_KeepFirst(h) == IF h = <<>> THEN <<>> ELSE <<h[1]>>

\* self.conversation_history = []
Cleared(h) == <<>>

\* WeatherAgent.reset, called by main between two chat() calls
Reset ==
    /\ CallerFree(pc)
    /\ history' = Cleared(history)
    /\ cleared' = [turns |-> Len(history), after |-> pc]
    /\ pc' = "idle"
    /\ sent' = <<>>
    /\ response' = NoResponse
    /\ retval' = ""
    /\ failKind' = "none"
    /\ hist0' = <<>>
    /\ userText' = ""
    /\ rounds' = 0
    /\ responses' = <<>>
    /\ lastExec' = NoExec
    /\ startedAfter' = "none"
    /\ execLog' = <<>>
    /\ failedSince' = FALSE
    /\ UNCHANGED active

Next ==
    \/ \E text \in UserTexts : Submit(text)
    \/ ModelFail
    \/ \E resp \in ModelResponses, env \in ProviderOutcomes : ToolRound(resp, env)
    \/ \E resp \in ModelResponses : ToolUseMissing(resp)
    \/ \E resp \in ModelResponses : Final(resp)
    \/ Reset

Spec == Init /\ [][Next]_vars

\* ------------------------------------------- tool server (separate process)
\* days = max(1, min(5, days))
ClampDays(days) == Max(1, Min(5, days))

\* weather_mcp_server.get_current_weather
McpGetCurrentWeather(location, units, env) ==
    LET r == ApiGetCurrentWeather(location, units, env)
    IN  IF r.raised
        THEN Returned(JsonDumps([error |-> r.msg], 0), r.calls)
        ELSE Returned(JsonDumps(r.value, 2), r.calls)

\* weather_mcp_server.get_forecast
McpGetForecast(location, days, units, env) ==
    LET r == ApiGetForecast(location, ClampDays(days), units, env)
    IN  IF r.raised
        THEN Returned(JsonDumps([error |-> r.msg], 0), r.calls)
        ELSE Returned(JsonDumps(r.value, 2), r.calls)

\* a client of the tool server calls get_current_weather
ServerGetCurrentWeather(location, units, env) ==
    /\ LET impl == ApiGetCurrentWeather(location, units, env)
           r == McpGetCurrentWeather(location, units, env)
       IN  lastExec' = [path |-> "server", name |-> "get_current_weather",
                        input |-> [location |-> location, units |-> units],
                        implRaised |-> impl.raised, msg |-> impl.msg,
                        raised |-> r.raised, result |-> r.value,
                        calls |-> r.calls]
    /\ UNCHANGED <<history, pc, sent, response, retval, failKind, hist0,
                   userText, rounds, responses, startedAfter, cleared,
                   execLog, active, failedSince>>

\* a client of the tool server calls get_forecast
ServerGetForecast(location, days, units, env) ==
    /\ LET impl == ApiGetForecast(location, ClampDays(days), units, env)
           r == McpGetForecast(location, days, units, env)
       IN  lastExec' = [path |-> "server", name |-> "get_forecast",
                        input |-> [location |-> location, days |-> days,
                                   units |-> units],
                        implRaised |-> impl.raised, msg |-> impl.msg,
                        raised |-> r.raised, result |-> r.value,
                        calls |-> r.calls]
    /\ UNCHANGED <<history, pc, sent, response, retval, failKind, hist0,
                   userText, rounds, responses, startedAfter, cleared,
                   execLog, active, failedSince>>

NextServer ==
    \/ \E location \in Locations, units \in Units, env \in ProviderOutcomes :
          ServerGetCurrentWeather(location, units, env)
    \/ \E location \in Locations, days \in DaysValues, units \in Units,
          env \in ProviderOutcomes :
          ServerGetForecast(location, days, units, env)

SpecServer == Init /\ [][NextServer]_vars

\* On the tool server every get_forecast reaches WeatherAPI.get_forecast with
\* days in 1..5.
ServerDaysClamped ==
    lastExec.path = "server" =>
        \A i \in 1..Len(lastExec.calls) :
            lastExec.calls[i].method = "get_forecast"
                => lastExec.calls[i].days \in 1..5

TypeOK ==
    /\ pc \in {"idle", "awaiting", "returned", "failed"}
    /\ Len(history) <= MaxTurns
    /\ rounds \in 0..MaxTurns

\* ------------------------------------------------------------ properties
ModelCallFailed == pc = "failed" /\ failKind = "model"

IsToolResultTurn(t) ==
    /\ t.role = "user"
    /\ t.kind = "blocks"
    /\ Len(t.blocks) = 1
    /\ t.blocks[1].type = "tool_result"

\* position in history of the user turn of the chat() in progress
Base == Len(hist0) + 1

\* the transcript on entry, the user turn, then one (assistant tool request,
\* user tool result) pair for each of the first k responses
CommittedThrough(k) ==
    /\ Len(history) >= Base + 2 * k
    /\ SubSeq(history, 1, Len(hist0)) = hist0
    /\ history[Base] = UserTurn(userText)
    /\ Len(responses) >= k
    /\ \A i \in 1..k :
          /\ history[Base + 2 * i - 1] = AssistantTurn(responses[i])
          /\ HasToolUse(responses[i])
          /\ IsToolResultTurn(history[Base + 2 * i])

\* C1: when the model call of round k >= 2 fails, chat() fails and the
\* transcript is the transcript on entry, the user turn and the k-1 complete
\* (tool request, tool result) pairs of the earlier rounds, nothing more.
C1_FailureIsolation ==
    (ModelCallFailed /\ rounds >= 1) =>
        /\ CommittedThrough(rounds)
        /\ Len(history) = Base + 2 * rounds
        /\ Len(responses) = rounds
        /\ IsToolResultTurn(history[Len(history)])

C1_Witness == ModelCallFailed /\ rounds >= 1 /\ Len(hist0) >= 1

\* C2 as stated: after a model call failure the transcript equals the
\* transcript chat() was entered with.
C2_UnmodifiedBySubmit == ModelCallFailed => history = hist0

\* C2 as amended: after a model call failure the transcript is what the
\* failing model call was given: the transcript on entry, the user turn (which
\* stays) and two turns for each completed round.
C2_UnmodifiedByFailingCall ==
    ModelCallFailed =>
        /\ history = sent
        /\ IsPrefix(Append(hist0, UserTurn(userText)), history)
        /\ Len(history) = Base + 2 * rounds

C2_Witness == ModelCallFailed /\ rounds = 0 /\ startedAfter = "failed"

\* C3: a chat() that returns after k rounds has appended exactly 2k+2 turns:
\* the user turn, k (assistant tool request, user tool result) pairs, and the
\* assistant turn of the final response.
C3_ReturnShape ==
    pc = "returned" =>
        /\ CommittedThrough(rounds)
        /\ Len(history) = Len(hist0) + 2 * rounds + 2
        /\ Len(responses) = rounds + 1
        /\ history[Len(history)] = AssistantTurn(responses[rounds + 1])
        /\ responses[rounds + 1] = response.content

C3_Witness == pc = "returned" /\ rounds = 1 /\ Len(history) = 4

\* C4: whenever a model call is in flight or chat() has returned, every
\* assistant turn holding a tool request is followed by exactly one
\* tool-result turn.
C4_ToolRequestAnswered ==
    pc \in {"awaiting", "returned"} =>
        \A i \in 1..Len(history) :
            (history[i].role = "assistant" /\ HasToolUse(history[i].blocks)) =>
                /\ i < Len(history)
                /\ IsToolResultTurn(history[i + 1])
                /\ (i + 2 <= Len(history) => ~IsToolResultTurn(history[i + 2]))

ExecFailed == lastExec.path = "loop" /\ lastExec.name \in Registry
              /\ lastExec.implRaised

\* C5: when the implementation of a registered tool raises, the executor
\* still hands back a result, whose error field is the failure's non-empty
\* message, and nothing propagates to chat()'s caller.
C5_ExecutorNeverRaises ==
    ExecFailed =>
        /\ ~lastExec.raised
        /\ failKind # "tool"
        /\ DOMAIN lastExec.result.json = {"error"}
        /\ lastExec.result.json.error = lastExec.msg
        /\ lastExec.result.json.error # ""

C5_Witness == ExecFailed /\ "location" \notin DOMAIN lastExec.input

ExecUnknown == lastExec.path = "loop" /\ lastExec.name \notin Registry

\* C6: for a tool name outside the registry the executor returns
\* {"error": "Unknown tool: <name>"}, raises nothing and calls no provider.
C6_UnknownTool ==
    ExecUnknown =>
        /\ lastExec.result = JsonDumps([error |-> "Unknown tool: " \o lastExec.name], 2)
        /\ ~lastExec.implRaised
        /\ ~lastExec.raised
        /\ lastExec.calls = <<>>

C6_Witness == ExecUnknown /\ lastExec.name = "get_alerts"

ExecErrored == lastExec.path = "loop"
               /\ (lastExec.implRaised \/ lastExec.name \notin Registry)

\* C7: a tool execution error never fails chat(): the round appends the
\* assistant tool request and a tool result carrying the error, and the next
\* model call is issued with both in the transcript.
C7_ToolErrorFedBack ==
    /\ failKind # "tool"
    /\ ExecErrored => "error" \in DOMAIN lastExec.result.json
    /\ (ExecErrored /\ pc = "awaiting") =>
          /\ rounds >= 1
          /\ Len(history) = Base + 2 * rounds
          /\ history[Len(history) - 1] = AssistantTurn(response.content)
          /\ history[Len(history)] =
                ToolResultTurn(response.content[FirstToolUse(response.content)].id,
                               lastExec.result)
          /\ sent = history

C7_Witness == ExecErrored /\ pc = "awaiting" /\ rounds = 2

\* C8: reset() leaves the transcript empty whatever it held, and a chat() with
\* no tool round issued after a reset leaves the two turns a new agent holds.
C8_ResetEmpties ==
    /\ pc = "idle" => history = <<>>
    /\ (pc = "returned" /\ rounds = 0 /\ startedAfter \in {"new", "reset_empty", "reset"})
          => history = <<UserTurn(userText), AssistantTurn(response.content)>>

C8_Witness == pc = "returned" /\ rounds = 0 /\ startedAfter = "reset"

\* C9: every step other than reset() keeps the transcript as a prefix of the
\* transcript after the step.
C9_AppendOnly == [][Reset \/ IsPrefix(history, history')]_vars

C9_Witness == ModelCallFailed /\ rounds = 2 /\ Len(history) > Len(hist0)

\* C10: every get_forecast that reaches WeatherAPI.get_forecast carries days
\* in 1..5, on the loop's executor and on the tool server.
C10_DaysClamped ==
    \A i \in 1..Len(lastExec.calls) :
        lastExec.calls[i].method = "get_forecast"
            => lastExec.calls[i].days \in 1..5

\* the tool requests of a response content, in content order
ToolRequests(content) == SelectSeq(content, LAMBDA b : b.type = "tool_use")

\* the text segments of a response content, in content order
TextSegments(content) == SelectSeq(content, LAMBDA b : b.type = "text")

RECURSIVE JoinTexts(_, _)
JoinTexts(segs, n) ==
    IF n = 0 THEN "" ELSE JoinTexts(segs, n - 1) \o segs[n].text

C14_ToolRequestNonTerminal ==
    pc = "returned" => ~HasToolUse(response.content)

\* C15: every tool-result turn is keyed by the id of the first tool request of
\* the assistant turn right before it, and its content is an executor result
\* for that request's name and arguments.
C15_ResultKeyedByRequest ==
    \A i \in 1..Len(history) :
        IsToolResultTurn(history[i]) =>
            /\ i > 1
            /\ history[i - 1].role = "assistant"
            /\ Len(ToolRequests(history[i - 1].blocks)) >= 1
            /\ LET first == ToolRequests(history[i - 1].blocks)[1]
               IN  /\ history[i].blocks[1].tool_use_id = first.id
                   /\ \E env \in ProviderOutcomes :
                         history[i].blocks[1].content =
                             ExecuteTool(first.name, first.input, env).value

C15_Witness ==
    /\ Len(history) >= 3
    /\ IsToolResultTurn(history[Len(history)])
    /\ Len(ToolRequests(history[Len(history) - 1].blocks)) = 2

\* C16: the value chat() returns is the text segments of the final response
\* joined in content order, with nothing from earlier responses, and the last
\* turn is the assistant turn holding that response's content.
C16_FinalText ==
    pc = "returned" =>
        /\ retval = JoinTexts(TextSegments(response.content),
                              Len(TextSegments(response.content)))
        /\ history[Len(history)] = AssistantTurn(response.content)

C16_Witness ==
    /\ pc = "returned"
    /\ rounds = 1
    /\ Len(TextSegments(response.content)) = 2
    /\ Len(TextSegments(responses[1])) = 1

\* C17: every model call is given the whole current transcript, which is not
\* empty and ends with a user turn: the user text just submitted or the tool
\* result of the round just completed.
C17_ModelCallInput ==
    pc = "awaiting" =>
        /\ sent = history
        /\ Len(sent) >= 1
        /\ sent[Len(sent)].role = "user"
        /\ rounds = 0 => sent[Len(sent)] = UserTurn(userText)
        /\ rounds >= 1 => IsToolResultTurn(sent[Len(sent)])

C17_Witness == pc = "awaiting" /\ rounds = 1 /\ startedAfter = "failed"

\* C18: while no chat() has failed, the transcript between two calls is empty
\* or of even length with roles alternating user, assistant from a first user
\* turn to a last assistant turn.
C18_RolesAlternate ==
    (pc \in {"idle", "returned"} /\ ~failedSince) =>
        /\ Len(history) % 2 = 0
        /\ \A i \in 1..Len(history) :
              history[i].role = (IF i % 2 = 1 THEN "user" ELSE "assistant")

C18_Witness ==
    /\ pc = "returned"
    /\ ~failedSince
    /\ Len(hist0) = 2
    /\ Len(history) = 4

====
